---- MODULE Spec2Model ----
(***************************************************************************)
(* Lead-enrichment sample generator (src/app.py).                          *)
(*                                                                         *)
(* Text is a sequence of one-character strings, so that the regular        *)
(* expression of validate_date_format, strptime/strftime and               *)
(* str.lower()/str.replace() are computed character by character.          *)
(* A JSON value (a parsed response body, and every value stored in a row)  *)
(* is a record [t |-> type tag, v |-> payload].  Row and object keys are   *)
(* TLA+ strings; a computed key is built with Join.                        *)
(***************************************************************************)
EXTENDS Integers, Sequences, FiniteSets, TLC

VARIABLES
    pads_year,        \* platform: does strftime('%Y') zero-pad years below 1000
    pc,               \* position of the script: "form", "rejected", "loop", "done";
                      \* "call" when a function is applied directly
    api_key,          \* form input
    domains_text,     \* form input, as its sequence of lines (split on "\n")
    start_date,       \* form input
    end_date,         \* form input
    domains,          \* stripped non-empty lines
    i,                \* number of loop iterations completed
    all_metadata,     \* accumulator
    all_time_series,  \* accumulator
    has_errors,       \* aggregate error flag
    shown_errors,     \* what st.error has displayed, in order
    status_text,      \* last text of the status placeholder
    net_calls,        \* domains for which requests.get was called, in order
    fetched,          \* results returned by fetch_lead_data, in order
    args,             \* direct application of one function: its arguments
    ret               \* direct application of one function: its result

vars == <<pads_year, pc, api_key, domains_text, start_date, end_date, domains,
          i, all_metadata, all_time_series, has_errors, shown_errors,
          status_text, net_calls, fetched, args, ret>>

batch_vars == <<pc, api_key, domains_text, start_date, end_date, domains,
                i, all_metadata, all_time_series, has_errors, shown_errors,
                status_text, net_calls, fetched>>

----------------------------------------------------------------------------
(* Bounds *)

MaxLines == 3          \* lines typed in the domains text area
MaxMonths == 4         \* longest month range requested

----------------------------------------------------------------------------
(* Python values *)

Str(chars) == [t |-> "str", v |-> chars]
Int_(n) == [t |-> "int", v |-> n]
\* a float with a short decimal expansion: integer part, fraction digits
Float(ip, frac) == [t |-> "float", v |-> <<ip, frac>>]
Bool(b) == [t |-> "bool", v |-> b]
None == [t |-> "null", v |-> 0]
List(seq) == [t |-> "list", v |-> seq]
Dict(fn) == [t |-> "dict", v |-> fn]
EmptyDict == Dict([k \in {} |-> None])

isinstance_dict(x) == x.t = "dict"
isinstance_list(x) == x.t = "list"
isinstance_str(x) == x.t = "str"

\* d.get(k, default) on a dict
dict_get(d, k, default) == IF k \in DOMAIN d.v THEN d.v[k] ELSE default

\* d[k] = val
dict_set(row, k, val) == (k :> val) @@ row

\* x == '<chars>' for a str right-hand side
eq_str(x, chars) == x.t = "str" /\ x.v = chars

RECURSIVE all_zero(_)
all_zero(ds) == ds = <<>> \/ (Head(ds) = 0 /\ all_zero(Tail(ds)))

\* truth value of x (bool(x))
truthy(x) ==
    CASE x.t = "str" -> x.v /= <<>>
      [] x.t = "int" -> x.v /= 0
      [] x.t = "float" -> ~(x.v[1] = 0 /\ all_zero(x.v[2]))
      [] x.t = "bool" -> x.v
      [] x.t = "null" -> FALSE
      [] x.t = "list" -> x.v /= <<>>
      [] x.t = "dict" -> DOMAIN x.v /= {}

\* a or b
py_or(a, b) == IF truthy(a) THEN a ELSE b

DigitChars == <<"0","1","2","3","4","5","6","7","8","9">>
IsDigit(c) == \E d \in 1..10 : DigitChars[d] = c
DigitVal(c) == (CHOOSE d \in 1..10 : DigitChars[d] = c) - 1

RECURSIVE IntText(_)
IntText(n) ==
    IF n < 10 THEN <<DigitChars[n + 1]>>
    ELSE IntText(n \div 10) \o <<DigitChars[(n % 10) + 1]>>

RECURSIVE DigitsText(_)
DigitsText(ds) ==
    IF ds = <<>> THEN <<>> ELSE <<DigitChars[Head(ds) + 1]>> \o DigitsText(Tail(ds))

\* str(x) for a scalar x
str(x) ==
    CASE x.t = "str" -> x.v
      [] x.t = "int" -> IntText(x.v)
      [] x.t = "float" -> IntText(x.v[1]) \o <<".">> \o DigitsText(x.v[2])
      [] x.t = "bool" -> IF x.v THEN <<"T","r","u","e">> ELSE <<"F","a","l","s","e">>
      [] x.t = "null" -> <<"N","o","n","e">>

UpperChars == <<"A","B","C","D","E","F","G","H","I","J","K","L","M",
                "N","O","P","Q","R","S","T","U","V","W","X","Y","Z">>
LowerChars == <<"a","b","c","d","e","f","g","h","i","j","k","l","m",
                "n","o","p","q","r","s","t","u","v","w","x","y","z">>

\* s.lower()
lower(s) ==
    [p \in 1..Len(s) |->
        IF \E u \in 1..26 : UpperChars[u] = s[p]
        THEN LowerChars[CHOOSE u \in 1..26 : UpperChars[u] = s[p]]
        ELSE s[p]]

\* s.replace(' ', '_')
replace_space(s) == [p \in 1..Len(s) |-> IF s[p] = " " THEN "_" ELSE s[p]]

WhiteChars == {" ", "\t", "\r", "\n"}

RECURSIVE lstrip(_)
lstrip(s) == IF s /= <<>> /\ Head(s) \in WhiteChars THEN lstrip(Tail(s)) ELSE s

RECURSIVE rstrip(_)
rstrip(s) ==
    IF s /= <<>> /\ s[Len(s)] \in WhiteChars THEN rstrip(SubSeq(s, 1, Len(s) - 1)) ELSE s

\* s.strip()
strip(s) == rstrip(lstrip(s))

\* the characters of a text as one string (to form a column name)
RECURSIVE Join(_)
Join(s) == IF s = <<>> THEN "" ELSE Head(s) \o Join(Tail(s))

----------------------------------------------------------------------------
(* Dates *)

MINYEAR == 1
MAXYEAR == 9999

\* the two-digit month alternative 0[1-9]|1[0-2] at positions p, p+1
TwoDigitMonth(s, p) ==
    /\ Len(s) >= p + 1
    /\ \/ s[p] = "0" /\ IsDigit(s[p + 1]) /\ s[p + 1] /= "0"
       \/ s[p] = "1" /\ s[p + 1] \in {"0", "1", "2"}

\* re.match(r'^\d{4}-(?:0[1-9]|1[0-2])$', s); $ also matches before a final newline
DateRegexMatches(s) ==
    /\ Len(s) >= 7
    /\ \A p \in 1..4 : IsDigit(s[p])
    /\ s[5] = "-"
    /\ TwoDigitMonth(s, 6)
    /\ \/ Len(s) = 7
       \/ Len(s) = 8 /\ s[8] = "\n"

\* ValueError("time data '<s>' does not match format '%Y-%m'")
NoFormatMatch(s) ==
    [exc |-> "ValueError",
     msg |-> <<"t","i","m","e"," ","d","a","t","a"," ","'">> \o s \o
             <<"'"," ","d","o","e","s"," ","n","o","t"," ","m","a","t","c","h"," ","f","o","r","m","a","t"," ","'","%","Y","-","%","m","'">>]

\* ValueError("unconverted data remains: <rest>")
UnconvertedData(rest) ==
    [exc |-> "ValueError",
     msg |-> <<"u","n","c","o","n","v","e","r","t","e","d"," ","d","a","t","a"," ","r","e","m","a","i","n","s",":"," ">> \o rest]

\* ValueError("year 0 is out of range")
YearZero ==
    [exc |-> "ValueError",
     msg |-> <<"y","e","a","r"," ","0"," ","i","s"," ","o","u","t"," ","o","f"," ","r","a","n","g","e">>]

\* datetime.replace(year=10000) inside current_date + relativedelta(months=1)
YearOutOfRange ==
    [exc |-> "ValueError",
     msg |-> <<"y","e","a","r"," ","1","0","0","0","0"," ","i","s"," ","o","u","t"," ","o","f"," ","r","a","n","g","e">>]

\* datetime.strptime(s, '%Y-%m'): the parsed (year, month) or ValueError
strptime(s) ==
    IF ~(Len(s) >= 6 /\ (\A p \in 1..4 : IsDigit(s[p])) /\ s[5] = "-")
    THEN NoFormatMatch(s)
    ELSE LET year == 1000 * DigitVal(s[1]) + 100 * DigitVal(s[2])
                     + 10 * DigitVal(s[3]) + DigitVal(s[4])
             two == TwoDigitMonth(s, 6)
             one == IsDigit(s[6]) /\ s[6] /= "0"
             used == IF two THEN 7 ELSE 6
             month == IF two THEN 10 * DigitVal(s[6]) + DigitVal(s[7])
                      ELSE DigitVal(s[6])
         IN  IF ~(two \/ one) THEN NoFormatMatch(s)
             ELSE IF Len(s) /= used THEN UnconvertedData(SubSeq(s, used + 1, Len(s)))
             ELSE IF year < MINYEAR THEN YearZero
             ELSE [exc |-> "none", year |-> year, month |-> month]

\* date.strftime('%Y-%m')
strftime(year, month, pad) ==
    LET y == IntText(year)
        zeros == [p \in 1..(4 - Len(y)) |-> "0"]
        m == IF month < 10 THEN <<"0">> \o IntText(month) ELSE IntText(month)
    IN  (IF pad THEN zeros \o y ELSE y) \o <<"-">> \o m

\* validate_date_format without the strptime call
validate_date_format_regex_only(date_str) == DateRegexMatches(date_str)

validate_date_format(date_str) ==
    IF ~DateRegexMatches(date_str) THEN FALSE
    ELSE strptime(date_str).exc = "none"

\* the position of a month on the calendar
MonthIndex(year, month) == year * 12 + month

\* the while loop of get_date_range from (year, month) up to (ey, em)
RECURSIVE date_range_loop(_, _, _, _, _, _)
date_range_loop(year, month, ey, em, dates, pad) ==
    IF ~(MonthIndex(year, month) <= MonthIndex(ey, em))
    THEN [exc |-> "none", dates |-> dates]
    ELSE LET appended == Append(dates, strftime(year, month, pad))
             ny == IF month = 12 THEN year + 1 ELSE year
             nm == IF month = 12 THEN 1 ELSE month + 1
         IN  IF ny > MAXYEAR THEN YearOutOfRange
             ELSE date_range_loop(ny, nm, ey, em, appended, pad)

get_date_range(start, end, pad) ==
    LET s == strptime(start)
        e == strptime(end)
    IN  IF s.exc /= "none" THEN s
        ELSE IF e.exc /= "none" THEN e
        ELSE date_range_loop(s.year, s.month, e.year, e.month, <<>>, pad)

----------------------------------------------------------------------------
(* Exceptions raised by the flattener *)

type_name(x) ==
    CASE x.t = "str" -> <<"s","t","r">>
      [] x.t = "int" -> <<"i","n","t">>
      [] x.t = "float" -> <<"f","l","o","a","t">>
      [] x.t = "bool" -> <<"b","o","o","l">>
      [] x.t = "null" -> <<"N","o","n","e","T","y","p","e">>
      [] x.t = "list" -> <<"l","i","s","t">>
      [] x.t = "dict" -> <<"d","i","c","t">>

\* x.lower() on a value that is not a str
NoLower(x) ==
    [exc |-> "AttributeError",
     msg |-> <<"'">> \o type_name(x) \o
             <<"'"," ","o","b","j","e","c","t"," ","h","a","s"," ","n","o"," ",
               "a","t","t","r","i","b","u","t","e"," ","'","l","o","w","e","r","'">>]

\* x.get(...) on a value that is not a dict
NoGet(x) ==
    [exc |-> "AttributeError",
     msg |-> <<"'">> \o type_name(x) \o
             <<"'"," ","o","b","j","e","c","t"," ","h","a","s"," ","n","o"," ",
               "a","t","t","r","i","b","u","t","e"," ","'","g","e","t","'">>]

----------------------------------------------------------------------------
(* Response flattener *)

Empty == Str(<<>>)

MetadataFields ==
    {"global_rank", "category_rank", "company_name", "site_type", "site_type_new",
     "employee_range", "estimated_revenue_in_usd", "online_revenue_range",
     "headquarters", "website_category", "website_category_new", "zip_code"}

parse_metadata(response_data, domain) ==
    IF ~isinstance_dict(response_data) THEN NoGet(response_data)
    ELSE [exc |-> "none",
          row |-> [k \in {"domain"} \cup MetadataFields |->
                     IF k = "domain" THEN Str(domain)
                     ELSE dict_get(response_data, k, Empty)]]

\* the for loop of get_metric_value from entry p on
RECURSIVE metric_scan(_, _, _)
metric_scan(entries, p, target_date) ==
    IF p > Len(entries) THEN Empty
    ELSE IF isinstance_dict(entries[p])
            /\ eq_str(dict_get(entries[p], "date", None), target_date)
         THEN dict_get(entries[p], "value", None)
         ELSE metric_scan(entries, p + 1, target_date)

\* a is the beginning of b
is_prefix(a, b) == Len(a) <= Len(b) /\ SubSeq(b, 1, Len(a)) = a

\* get_metric_value matching an entry whose date begins the target date
get_metric_value_prefix(metric_array, target_date) ==
    IF ~isinstance_list(metric_array) THEN Empty
    ELSE LET hits == SelectSeq(metric_array.v,
                        LAMBDA e : /\ isinstance_dict(e)
                                   /\ isinstance_str(dict_get(e, "date", None))
                                   /\ is_prefix(dict_get(e, "date", None).v, target_date))
         IN  IF hits = <<>> THEN Empty ELSE dict_get(hits[1], "value", None)

get_metric_value(metric_array, target_date) ==
    IF ~isinstance_list(metric_array) THEN Empty
    ELSE metric_scan(metric_array.v, 1, target_date)

BasicMetrics ==
    {"visits", "unique_visitors", "bounce_rate", "pages_per_visit",
     "average_visit_duration", "mom_growth"}

\* metrics[k] = str(get_metric_value(response_data.get(k, []), date) or '')
basic_metric(response_data, k, date) ==
    Str(str(py_or(get_metric_value(dict_get(response_data, k, List(<<>>)), date), Empty)))

\* the Mobile/Desktop share block
share_block(response_data, date) ==
    LET mobile_desktop ==
            get_metric_value(dict_get(response_data, "mobile_desktop_share", List(<<>>)), date)
    IN  IF isinstance_dict(mobile_desktop)
        THEN [desktop_share |-> Str(str(dict_get(mobile_desktop, "desktop_share", Empty))),
              mobile_share |-> Str(str(dict_get(mobile_desktop, "mobile_share", Empty)))]
        ELSE [desktop_share |-> Empty, mobile_share |-> Empty]

\* the body of "for source in traffic_sources" for one source
traffic_entry(source, metrics) ==
    IF ~isinstance_dict(source) THEN [exc |-> "none", row |-> metrics]
    ELSE LET raw == dict_get(source, "source_type", Empty)
         IN  IF ~isinstance_str(raw) THEN NoLower(raw)
             ELSE LET source_type == replace_space(lower(raw.v))
                      share == dict_get(source, "share", Empty)
                  IN  IF source_type /= <<>>
                      THEN [exc |-> "none",
                            row |-> dict_set(metrics, "traffic_" \o Join(source_type),
                                             IF ~eq_str(share, <<>>) THEN Str(str(share))
                                             ELSE Empty)]
                      ELSE [exc |-> "none", row |-> metrics]

\* "for source in traffic_sources" from source p on
RECURSIVE traffic_loop(_, _, _)
traffic_loop(sources, p, metrics) ==
    IF p > Len(sources) THEN [exc |-> "none", row |-> metrics]
    ELSE LET r == traffic_entry(sources[p], metrics)
         IN  IF r.exc /= "none" THEN r
             ELSE traffic_loop(sources, p + 1, r.row)

\* the Traffic Sources block
traffic_block(response_data, date, metrics) ==
    LET traffic_sources ==
            get_metric_value(dict_get(response_data, "traffic_sources", List(<<>>)), date)
    IN  IF isinstance_list(traffic_sources)
        THEN traffic_loop(traffic_sources.v, 1, metrics)
        ELSE [exc |-> "none", row |-> metrics]

GeoSlots == 10
geo_country(n) == "geo_country_" \o Join(IntText(n))
geo_country_share(n) == "geo_country_share_" \o Join(IntText(n))
GeoColumns == {geo_country(n) : n \in 1..GeoSlots} \cup {geo_country_share(n) : n \in 1..GeoSlots}

\* "for i in range(1, 11)": every geography column set to ''
geo_init(metrics) == [k \in GeoColumns |-> Empty] @@ metrics

\* "for i, country in enumerate(geography_share[:10], 1)" from element p on
RECURSIVE geo_fill(_, _, _)
geo_fill(top, p, metrics) ==
    IF p > Len(top) THEN metrics
    ELSE IF isinstance_dict(top[p])
         THEN geo_fill(top, p + 1,
                  dict_set(dict_set(metrics, geo_country(p),
                                    Str(str(dict_get(top[p], "country", Empty)))),
                           geo_country_share(p),
                           Str(str(dict_get(top[p], "share", Empty)))))
         ELSE geo_fill(top, p + 1, metrics)

\* the Geography Share block without the [:10] slice
geo_block_no_slice(response_data, date, metrics) ==
    LET geography_share ==
            get_metric_value(dict_get(response_data, "geography_share", List(<<>>)), date)
    IN  IF isinstance_list(geography_share)
        THEN geo_fill(geography_share.v, 1, geo_init(metrics))
        ELSE metrics

\* the Geography Share block
geo_block(response_data, date, metrics) ==
    LET geography_share ==
            get_metric_value(dict_get(response_data, "geography_share", List(<<>>)), date)
    IN  IF isinstance_list(geography_share)
        THEN LET top == SubSeq(geography_share.v, 1,
                               IF Len(geography_share.v) < GeoSlots
                               THEN Len(geography_share.v) ELSE GeoSlots)
             IN  geo_fill(top, 1, geo_init(metrics))
        ELSE metrics

parse_time_series(response_data, domain, date) ==
    IF ~isinstance_dict(response_data) THEN NoGet(response_data)
    ELSE LET m0 == [domain |-> Str(domain), date |-> Str(date)]
             m1 == [k \in BasicMetrics |-> basic_metric(response_data, k, date)] @@ m0
             m2 == share_block(response_data, date) @@ m1
             m3 == traffic_block(response_data, date, m2)
         IN  IF m3.exc /= "none" THEN m3
             ELSE [exc |-> "none", row |-> geo_block(response_data, date, m3.row)]

----------------------------------------------------------------------------
(* Per-domain orchestration *)

InvalidDateMessage ==
    <<"I","n","v","a","l","i","d"," ","d","a","t","e"," ","f","o","r","m","a","t","."," ","P","l","e","a","s","e"," ","u","s","e"," ","Y","Y","Y","Y","-","M","M"," ","f","o","r","m","a","t",".">>
AuthFailedMessage ==
    <<"A","P","I"," ","a","u","t","h","e","n","t","i","c","a","t","i","o","n"," ","f","a","i","l","e","d","."," ","P","l","e","a","s","e"," ","c","h","e","c","k"," ","y","o","u","r"," ","A","P","I"," ","k","e","y"," ","a","n","d"," ","t","r","y"," ","a","g","a","i","n",".">>
UnknownErrorMessage == <<"U","n","k","n","o","w","n"," ","e","r","r","o","r"," ","o","c","c","u","r","r","e","d">>
HttpErrorPrefix == <<"H","T","T","P"," ","E","r","r","o","r"," ">>
NetworkErrorPrefix == <<"N","e","t","w","o","r","k"," ","e","r","r","o","r",":"," ">>
ProcessingErrorPrefix == <<"E","r","r","o","r"," ","p","r","o","c","e","s","s","i","n","g"," ","d","a","t","a",":"," ">>
DaySuffix == <<"-","0","1">>

\* exception classes derived from requests.exceptions.RequestException
RequestExceptions == {"ConnectionError", "Timeout", "RequestsJSONDecodeError"}

\* {'metadata': [{'domain': domain, 'error': message}], 'time_series': []}
error_result(domain, message, calls) ==
    [metadata |-> <<[domain |-> Str(domain), error |-> message]>>,
     time_series |-> <<>>,
     calls |-> calls]

\* "for date in dates" from date p on
RECURSIVE time_series_loop(_, _, _, _, _)
time_series_loop(data, domain, dates, p, time_series) ==
    IF p > Len(dates) THEN [exc |-> "none", rows |-> time_series]
    ELSE LET formatted_date == dates[p] \o DaySuffix
             time_series_entry == parse_time_series(data, domain, formatted_date)
         IN  IF time_series_entry.exc /= "none" THEN time_series_entry
             ELSE time_series_loop(data, domain, dates, p + 1,
                                   Append(time_series, time_series_entry.row))

\* the names of the functions the 200 branch has invoked when it stops
success_calls(md, dr, n) ==
    <<"requests.get", "parse_metadata">>
    \o (IF md.exc = "none" THEN <<"get_date_range">> ELSE <<>>)
    \o (IF md.exc = "none" /\ dr.exc = "none" /\ n > 0 THEN <<"parse_time_series">> ELSE <<>>)

\* the branch "if response.status_code == 200"
success_branch(domain, start_date_, end_date_, response, pad) ==
    IF response.json.exc /= "none"
    THEN [kind |-> "raise", exc |-> response.json.exc, msg |-> response.json.msg,
          calls |-> <<"requests.get">>]
    ELSE LET data == response.json.data
             metadata == parse_metadata(data, domain)
             dates == get_date_range(start_date_, end_date_, pad)
             time_series == time_series_loop(data, domain, dates.dates, 1, <<>>)
         IN  IF metadata.exc /= "none"
             THEN [kind |-> "raise", exc |-> metadata.exc, msg |-> metadata.msg,
                   calls |-> success_calls(metadata, dates, 0)]
             ELSE IF dates.exc /= "none"
             THEN [kind |-> "raise", exc |-> dates.exc, msg |-> dates.msg,
                   calls |-> success_calls(metadata, dates, 0)]
             ELSE IF time_series.exc /= "none"
             THEN [kind |-> "raise", exc |-> time_series.exc, msg |-> time_series.msg,
                   calls |-> success_calls(metadata, dates, Len(dates.dates))]
             ELSE [kind |-> "return",
                   value |-> [metadata |-> <<metadata.row>>,
                              time_series |-> time_series.rows,
                              calls |-> success_calls(metadata, dates, Len(dates.dates))]]

\* the inner try of both error branches:
\*   error_data = response.json()
\*   if error_data.get('meta', {}).get('error_message'): ... error_data['meta']['error_message']
provider_message(response) ==
    IF response.json.exc /= "none" THEN [exc |-> response.json.exc]
    ELSE LET error_data == response.json.data
         IN  IF ~isinstance_dict(error_data) THEN [exc |-> "AttributeError"]
             ELSE LET meta == dict_get(error_data, "meta", EmptyDict)
                  IN  IF ~isinstance_dict(meta) THEN [exc |-> "AttributeError"]
                      ELSE LET m == dict_get(meta, "error_message", None)
                           IN  [exc |-> "none", found |-> truthy(m), message |-> m]

\* the branch "elif response.status_code == 403"
forbidden_branch(domain, response) ==
    LET pm == provider_message(response)
        error_message == IF pm.exc = "none" /\ pm.found THEN pm.message
                         ELSE Str(AuthFailedMessage)
    IN  error_result(domain, error_message, <<"requests.get">>)

\* the final else branch falling back to the body whenever no provider message
\* was found
other_status_branch_raw_body(domain, response) ==
    LET pm == provider_message(response)
        error_message ==
            IF pm.exc = "none" /\ pm.found THEN pm.message
            ELSE IF response.text /= <<>> THEN Str(response.text)
            ELSE Str(HttpErrorPrefix \o IntText(response.status_code))
    IN  error_result(domain, error_message, <<"requests.get">>)

\* the final else branch (any other status)
other_status_branch(domain, response) ==
    LET pm == provider_message(response)
        error_message ==
            IF pm.exc /= "none"
            THEN (IF response.text /= <<>> THEN Str(response.text)
                  ELSE Str(HttpErrorPrefix \o IntText(response.status_code)))
            ELSE IF pm.found THEN pm.message
            ELSE Str(UnknownErrorMessage)
    IN  error_result(domain, error_message, <<"requests.get">>)

\* the body of the try statement of fetch_lead_data
fetch_try(domain, start_date_, end_date_, response, pad) ==
    IF response.kind = "raise"
    THEN [kind |-> "raise", exc |-> response.exc, msg |-> response.msg,
          calls |-> <<"requests.get">>]
    ELSE IF response.status_code = 200
    THEN success_branch(domain, start_date_, end_date_, response, pad)
    ELSE IF response.status_code = 403
    THEN [kind |-> "return", value |-> forbidden_branch(domain, response)]
    ELSE [kind |-> "return", value |-> other_status_branch(domain, response)]

\* fetch_lead_data with "except requests.exceptions.RequestException" only
fetch_handlers_requests_only(domain, outcome) ==
    IF outcome.kind = "return" THEN [kind |-> "return", value |-> outcome.value]
    ELSE IF outcome.exc \in RequestExceptions
    THEN [kind |-> "return",
          value |-> error_result(domain, Str(NetworkErrorPrefix \o outcome.msg),
                                 outcome.calls)]
    ELSE [kind |-> "raise", exc |-> outcome.exc, msg |-> outcome.msg]

\* the except clauses reporting str(e) alone, without the fixed prefixes
fetch_handlers_bare_message(domain, outcome) ==
    IF outcome.kind = "return" THEN [kind |-> "return", value |-> outcome.value]
    ELSE [kind |-> "return",
          value |-> error_result(domain, Str(outcome.msg), outcome.calls)]

\* the two except clauses of fetch_lead_data
fetch_handlers(domain, outcome) ==
    IF outcome.kind = "return" THEN [kind |-> "return", value |-> outcome.value]
    ELSE IF outcome.exc \in RequestExceptions
    THEN [kind |-> "return",
          value |-> error_result(domain, Str(NetworkErrorPrefix \o outcome.msg),
                                 outcome.calls)]
    ELSE [kind |-> "return",
          value |-> error_result(domain, Str(ProcessingErrorPrefix \o outcome.msg),
                                 outcome.calls)]

\* fetch_lead_data(domain, api_key, start_date, end_date, country); response is
\* what requests.get does for this call; api_key and country only travel in
\* the request parameters
fetch_lead_data(domain, start_date_, end_date_, response, pad) ==
    IF ~(validate_date_format(start_date_) /\ validate_date_format(end_date_))
    THEN [kind |-> "return",
          value |-> error_result(domain, Str(InvalidDateMessage), <<>>)]
    ELSE fetch_handlers(domain, fetch_try(domain, start_date_, end_date_, response, pad))

----------------------------------------------------------------------------
(* Inputs *)

Amazon == <<"a","m","a","z","o","n",".","c","o","m">>
Google == <<"g","o","o","g","l","e",".","c","o","m">>
DomainInputs == {Amazon, Google}

\* lines of the domains text area: a domain, a domain between blanks, a blank line
LineInputs == {Amazon, <<" ">> \o Google \o <<" ">>, <<" ">>}

Nov2024 == <<"2","0","2","4","-","1","1">>
Dec2024 == <<"2","0","2","4","-","1","2">>
Jan2025 == <<"2","0","2","5","-","0","1">>
Feb2025 == <<"2","0","2","5","-","0","2">>
Dec0999 == <<"0","9","9","9","-","1","2">>
Nov9999 == <<"9","9","9","9","-","1","1">>
Dec9999 == <<"9","9","9","9","-","1","2">>

ValidDateInputs == {Nov2024, Dec2024, Jan2025, Feb2025, Dec0999, Nov9999, Dec9999}

InvalidDateInputs ==
    {<<"2","0","2","4","-","1","3">>,
     <<"2","4","-","0","3">>,
     <<"0","0","0","0","-","0","1">>,
     <<"2","0","2","4","-","1">>,
     <<"2","0","2","4","-","0","1">> \o <<"\n">>,
     <<>>}

DateInputs == ValidDateInputs \cup InvalidDateInputs

\* dates typed in the form
FormDateInputs == {Nov2024, Jan2025, <<"2","0","2","4","-","1","3">>}

\* the months from start to end are at most MaxMonths
WithinMaxMonths(start, end) ==
    LET s == strptime(start)
        e == strptime(end)
    IN  s.exc = "none" /\ e.exc = "none"
        => MonthIndex(e.year, e.month) - MonthIndex(s.year, s.month) < MaxMonths

Nov2024Day == Nov2024 \o DaySuffix
Dec2024Day == Dec2024 \o DaySuffix
Jan2025Day == Jan2025 \o DaySuffix

\* target dates handed to parse_time_series
TargetDates == {Nov2024Day, Dec2024Day, Jan2025Day, Dec2024}

OrganicSearch == <<"O","r","g","a","n","i","c"," ","S","e","a","r","c","h">>

\* a regular document
DocFull ==
    Dict([global_rank |-> Int_(5),
          company_name |-> Str(<<"A","m","a","z","o","n">>),
          zip_code |-> None,
          visits |-> List(<<Dict([date |-> Str(<<"2","0","2","4","-","1","1","-","0","1">>), value |-> Int_(1200)]), Dict([date |-> Str(<<"2","0","2","4","-","1","2","-","0","1">>), value |-> Int_(0)]), Dict([date |-> Str(<<"2","0","2","4","-","1","2","-","0","1">>), value |-> Int_(77)])>>),
          unique_visitors |-> List(<<Dict([date |-> Str(<<"2","0","2","4","-","1","2","-","0","1">>), value |-> Str(<<"9","0","0">>)])>>),
          bounce_rate |-> List(<<Dict([date |-> Str(<<"2","0","2","4","-","1","1","-","0","1">>), value |-> Float(0, <<4, 2>>)]), Dict([date |-> Str(<<"2","0","2","4","-","1","2","-","0","1">>), value |-> Float(0, <<0>>)])>>),
          pages_per_visit |-> List(<<Dict([date |-> Str(<<"2","0","2","4","-","1","2","-","0","1">>), value |-> Bool(TRUE)]), Dict([date |-> Str(<<"2","0","2","5","-","0","1","-","0","1">>), value |-> None])>>),
          mobile_desktop_share |-> List(<<Dict([date |-> Str(<<"2","0","2","4","-","1","2","-","0","1">>), value |-> Dict([desktop_share |-> Float(0, <<6>>), mobile_share |-> Float(0, <<4>>)])]), Dict([date |-> Str(<<"2","0","2","5","-","0","1","-","0","1">>), value |-> Dict([desktop_share |-> Int_(1)])])>>),
          traffic_sources |-> List(<<Dict([date |-> Str(<<"2","0","2","4","-","1","2","-","0","1">>), value |-> List(<<Dict([source_type |-> Str(OrganicSearch), share |-> Float(0, <<4, 2>>)]), Dict([share |-> Int_(3)]), Dict([source_type |-> Str(<<"D","i","r","e","c","t">>), share |-> Str(<<>>)]), Dict([source_type |-> Str(<<>>), share |-> Int_(9)]), Int_(4), Dict([source_type |-> Str(<<"S","o","c","i","a","l">>)]), Dict([source_type |-> Str(<<"P","a","i","d"," ","S","e","a","r","c","h">>), share |-> None])>>)]), Dict([date |-> Str(<<"2","0","2","5","-","0","1","-","0","1">>), value |-> List(<<Dict([source_type |-> Str(<<"D","i","r","e","c","t">>), share |-> Int_(1)])>>)])>>),
          geography_share |-> List(<<Dict([date |-> Str(<<"2","0","2","4","-","1","1","-","0","1">>), value |-> List(<<Dict([country |-> Str(<<"U","S">>), share |-> Float(0, <<5>>)]), Dict([country |-> Str(<<"D","E">>), share |-> Float(0, <<2, 5>>)]), Dict([country |-> Str(<<"F","R">>), share |-> Int_(0)])>>)]), Dict([date |-> Str(<<"2","0","2","4","-","1","2","-","0","1">>), value |-> List(<<Dict([country |-> Str(<<"U","S">>), share |-> Float(0, <<5>>)]), Dict([country |-> Str(<<"D","E">>), share |-> Int_(0)]), Int_(8), Dict([country |-> None])>>)]), Dict([date |-> Str(<<"2","0","2","5","-","0","1","-","0","1">>), value |-> List(<<>>)])>>)])

\* twelve countries reported for one month
DocManyCountries ==
    Dict([geography_share |-> List(<<Dict([date |-> Str(<<"2","0","2","4","-","1","2","-","0","1">>), value |-> List(<<Dict([country |-> Str(<<"U","S">>), share |-> Int_(20)]), Dict([country |-> Str(<<"D","E">>), share |-> Int_(19)]), Dict([country |-> Str(<<"F","R">>), share |-> Int_(18)]), Dict([country |-> Str(<<"G","B">>), share |-> Int_(17)]), Dict([country |-> Str(<<"I","N">>), share |-> Int_(16)]), Dict([country |-> Str(<<"B","R">>), share |-> Int_(15)]), Dict([country |-> Str(<<"J","P">>), share |-> Int_(14)]), Dict([country |-> Str(<<"C","A">>), share |-> Int_(13)]), Dict([country |-> Str(<<"I","T">>), share |-> Int_(12)]), Dict([country |-> Str(<<"E","S">>), share |-> Int_(11)]), Dict([country |-> Str(<<"M","X">>), share |-> Int_(10)]), Dict([country |-> Str(<<"A","U">>), share |-> Int_(9)])>>)])>>)])

\* the provider dates its entries YYYY-MM
DocMonthDates ==
    Dict([visits |-> List(<<Dict([date |-> Str(<<"2","0","2","4","-","1","2">>), value |-> Int_(1200)])>>),
          mom_growth |-> List(<<Dict([date |-> Str(<<"2","0","2","4","-","1","2">>), value |-> Float(1, <<5>>)])>>),
          mobile_desktop_share |-> List(<<Dict([date |-> Str(<<"2","0","2","4","-","1","2">>), value |-> Dict([desktop_share |-> Float(0, <<6>>), mobile_share |-> Float(0, <<4>>)])])>>),
          traffic_sources |-> List(<<Dict([date |-> Str(<<"2","0","2","4","-","1","2">>), value |-> List(<<Dict([source_type |-> Str(OrganicSearch), share |-> Float(0, <<4, 2>>)])>>)])>>),
          geography_share |-> List(<<Dict([date |-> Str(<<"2","0","2","4","-","1","2">>), value |-> List(<<Dict([country |-> Str(<<"U","S">>), share |-> Float(0, <<5>>)])>>)])>>)])

\* a traffic source whose source_type is null
DocNullSourceType ==
    Dict([visits |-> List(<<Dict([date |-> Str(<<"2","0","2","4","-","1","2","-","0","1">>), value |-> Int_(10)])>>),
          traffic_sources |-> List(<<Dict([date |-> Str(<<"2","0","2","4","-","1","2","-","0","1">>), value |-> List(<<Dict([source_type |-> Str(OrganicSearch), share |-> Float(0, <<4, 2>>)]), Dict([source_type |-> None, share |-> Float(0, <<1>>)])>>)])>>)])

\* a traffic source whose source_type is a number
DocNumericSourceType ==
    Dict([traffic_sources |-> List(<<Dict([date |-> Str(<<"2","0","2","4","-","1","1","-","0","1">>), value |-> List(<<Dict([source_type |-> Int_(7), share |-> Float(0, <<1>>)])>>)])>>)])

\* metric keys that do not hold arrays of dated objects
DocOddShapes ==
    Dict([global_rank |-> Float(1, <<5>>),
          visits |-> Str(<<"n","/","a">>),
          unique_visitors |-> List(<<Int_(1), Dict([date |-> Int_(2024), value |-> Int_(5)]), Dict([date |-> Str(<<"2","0","2","4","-","1","2","-","0","1">>)])>>),
          mobile_desktop_share |-> List(<<Dict([date |-> Str(<<"2","0","2","4","-","1","2","-","0","1">>), value |-> Int_(1)])>>),
          traffic_sources |-> List(<<Dict([date |-> Str(<<"2","0","2","4","-","1","2","-","0","1">>), value |-> Dict([source_type |-> Str(<<"D","i","r","e","c","t">>)])])>>),
          geography_share |-> List(<<Dict([date |-> Str(<<"2","0","2","4","-","1","2","-","0","1">>), value |-> Str(<<"U","S">>)])>>)])

\* bodies that parse to a mapping
MappingDocs ==
    {EmptyDict, DocFull, DocManyCountries, DocMonthDates, DocNullSourceType,
     DocNumericSourceType, DocOddShapes}

\* bodies that parse to something else
OtherDocs == {List(<<>>), None}

Docs == MappingDocs \cup OtherDocs

Parsed(data) == [exc |-> "none", data |-> data]
ExpectingValue == <<"E","x","p","e","c","t","i","n","g"," ","v","a","l","u","e",":"," ","l","i","n","e"," ","1"," ","c","o","l","u","m","n"," ","1"," ","(","c","h","a","r"," ","0",")">>
\* response.json() on a body that is not JSON: requests.exceptions.JSONDecodeError
\* (requests >= 2.27) or json.JSONDecodeError, a ValueError (older releases)
NotJson == {[exc |-> "RequestsJSONDecodeError", msg |-> ExpectingValue],
            [exc |-> "JSONDecodeError", msg |-> ExpectingValue]}

Ok(json) == [kind |-> "response", status_code |-> 200, json |-> json]
Failed(status_code, json, text) ==
    [kind |-> "response", status_code |-> status_code, json |-> json, text |-> text]
Raised(exc, msg) == [kind |-> "raise", exc |-> exc, msg |-> msg]

BadKey == <<"B","a","d"," ","k","e","y">>
MetaMessage(m) == Dict([meta |-> Dict([error_message |-> m])])
\* serialised bodies of the error documents below
MetaMessageText == <<"{","\"","m","e","t","a","\"",":","{","\"","e","r","r","o","r","_","m","e","s","s","a","g","e","\"",":","\"","B","a","d"," ","k","e","y","\"","}","}">>
MetaEmptyText == <<"{","\"","m","e","t","a","\"",":","{","\"","s","t","a","t","u","s","\"",":","\"","E","r","r","o","r","\"","}","}">>
MetaNullText == <<"{","\"","m","e","t","a","\"",":","n","u","l","l","}">>
HtmlText == <<"<","h","t","m","l",">","B","a","d"," ","G","a","t","e","w","a","y","<","/","h","t","m","l",">">>

SuccessResponses == {Ok(Parsed(d)) : d \in Docs} \cup {Ok(j) : j \in NotJson}

ForbiddenResponses ==
    {Failed(403, Parsed(MetaMessage(Str(BadKey))), MetaMessageText),
     Failed(403, Parsed(Dict([meta |-> Dict([status |-> Str(<<"E","r","r","o","r">>)])])), MetaEmptyText),
     Failed(403, Parsed(Dict([meta |-> None])), MetaNullText)}
    \cup {Failed(403, j, HtmlText) : j \in NotJson}

OtherStatusResponses ==
    {Failed(404, Parsed(MetaMessage(Str(BadKey))), MetaMessageText),
     Failed(429, Parsed(Dict([meta |-> Dict([status |-> Str(<<"E","r","r","o","r">>)])])), MetaEmptyText),
     Failed(500, Parsed(Dict([meta |-> None])), MetaNullText)}
    \cup {Failed(502, j, HtmlText) : j \in NotJson}
    \cup {Failed(204, j, <<>>) : j \in NotJson}

RaisedResponses ==
    {Raised("ConnectionError", <<"C","o","n","n","e","c","t","i","o","n"," ","r","e","f","u","s","e","d">>),
     Raised("Timeout", <<>>)}

Responses ==
    SuccessResponses \cup ForbiddenResponses \cup OtherStatusResponses \cup RaisedResponses

\* what the network does during a batch
BatchResponses ==
    {Ok(Parsed(DocFull)), Ok(Parsed(DocNullSourceType)),
     Failed(403, Parsed(MetaMessage(Str(BadKey))), MetaMessageText),
     Raised("Timeout", <<>>)}

----------------------------------------------------------------------------
(* The "Generate CSV" handler *)

DomainCeiling == 500

\* [d.strip() for d in domains_text.split('\n') if d.strip()]
RECURSIVE strip_lines(_)
strip_lines(lines) ==
    IF lines = <<>> THEN <<>>
    ELSE (IF strip(Head(lines)) /= <<>> THEN <<strip(Head(lines))>> ELSE <<>>)
         \o strip_lines(Tail(lines))

\* datetime.strptime(end_date, '%Y-%m') < datetime.strptime(start_date, '%Y-%m')
end_before_start(start, end) ==
    LET s == strptime(start)
        e == strptime(end)
    IN  MonthIndex(e.year, e.month) < MonthIndex(s.year, s.month)

\* "not domains_text": the text area holds the empty string
text_is_empty(lines) == lines = <<>> \/ lines = << <<>> >>

\* the form's checks without the comparison of the two dates
form_error_no_order(key, lines, start, end) ==
    IF key = <<>> THEN "Please enter an API key"
    ELSE IF text_is_empty(lines) THEN "Please enter at least one domain"
    ELSE IF ~validate_date_format(start) \/ ~validate_date_format(end)
    THEN "Please enter valid dates in YYYY-MM format"
    ELSE IF Len(strip_lines(lines)) > DomainCeiling THEN "Maximum 500 domains allowed"
    ELSE IF strip_lines(lines) = <<>> THEN "No valid domains found"
    ELSE "none"

\* the error the form reports for its inputs, or "none"
form_error(key, lines, start, end) ==
    IF key = <<>> THEN "Please enter an API key"
    ELSE IF text_is_empty(lines) THEN "Please enter at least one domain"
    ELSE IF ~validate_date_format(start) \/ ~validate_date_format(end)
    THEN "Please enter valid dates in YYYY-MM format"
    ELSE IF end_before_start(start, end) THEN "End date must be after start date"
    ELSE IF Len(strip_lines(lines)) > DomainCeiling THEN "Maximum 500 domains allowed"
    ELSE IF strip_lines(lines) = <<>> THEN "No valid domains found"
    ELSE "none"

\* result['metadata'][0].get('error')
first_error(result) ==
    dict_get(Dict(result.metadata[1]), "error", None)

\* the loop body without its "continue": an error row is accumulated as well
loop_body_no_continue(result, domain, errors, shown, metadata, time_series) ==
    [has_errors |-> errors \/ truthy(first_error(result)),
     shown_errors |-> IF truthy(first_error(result))
                      THEN Append(shown, [domain |-> domain, error |-> first_error(result)])
                      ELSE shown,
     all_metadata |-> metadata \o result.metadata,
     all_time_series |-> time_series \o result.time_series]

\* the loop body putting the new rows in front of the accumulated ones
loop_body_prepend(result, domain, errors, shown, metadata, time_series) ==
    IF truthy(first_error(result))
    THEN [has_errors |-> TRUE,
          shown_errors |-> Append(shown, [domain |-> domain, error |-> first_error(result)]),
          all_metadata |-> metadata,
          all_time_series |-> time_series]
    ELSE [has_errors |-> errors,
          shown_errors |-> shown,
          all_metadata |-> result.metadata \o metadata,
          all_time_series |-> result.time_series \o time_series]

\* one iteration of "for i, domain in enumerate(domains)", given the result of
\* fetch_lead_data: the new has_errors, shown_errors and accumulators
loop_body(result, domain, errors, shown, metadata, time_series) ==
    IF truthy(first_error(result))
    THEN [has_errors |-> TRUE,
          shown_errors |-> Append(shown, [domain |-> domain, error |-> first_error(result)]),
          all_metadata |-> metadata,
          all_time_series |-> time_series]
    ELSE [has_errors |-> errors,
          shown_errors |-> shown,
          all_metadata |-> metadata \o result.metadata,
          all_time_series |-> time_series \o result.time_series]

NoCall == [fn |-> "none"]

Init ==
    /\ pads_year \in BOOLEAN
    /\ pc = "form"
    /\ api_key = <<>>
    /\ domains_text = <<>>
    /\ start_date = <<>>
    /\ end_date = <<>>
    /\ domains = <<>>
    /\ i = 0
    /\ all_metadata = <<>>
    /\ all_time_series = <<>>
    /\ has_errors = FALSE
    /\ shown_errors = <<>>
    /\ status_text = "none"
    /\ net_calls = <<>>
    /\ fetched = <<>>
    /\ args = NoCall
    /\ ret = NoCall

\* the user presses "Generate CSV" with the form filled in
GenerateCSV ==
    /\ pc = "form"
    /\ \E key \in {<<>>, <<"k">>}, n \in 0..MaxLines, start \in FormDateInputs,
          end \in FormDateInputs :
         \E lines \in [1..n -> LineInputs] :
            /\ WithinMaxMonths(start, end)
            /\ api_key' = key
            /\ domains_text' = lines
            /\ start_date' = start
            /\ end_date' = end
            /\ \E err \in {form_error(key, lines, start, end)} :
                   IF err /= "none"
                   THEN /\ pc' = "rejected"
                        /\ shown_errors' = <<[form |-> err]>>
                        /\ domains' = <<>>
                   ELSE /\ pc' = "loop"
                        /\ shown_errors' = <<>>
                        /\ domains' = strip_lines(lines)
    /\ i' = 0
    /\ all_metadata' = <<>>
    /\ all_time_series' = <<>>
    /\ has_errors' = FALSE
    /\ UNCHANGED <<pads_year, status_text, net_calls, fetched, args, ret>>

\* the batch loop with "break" in place of "continue": the first failure ends it
LoopStepBreak ==
    /\ pc = "loop"
    /\ i < Len(domains)
    /\ \E response \in BatchResponses :
         \E outcome \in {fetch_lead_data(domains[i + 1], start_date, end_date,
                                         response, pads_year)} :
            \E after \in {loop_body(outcome.value, domains[i + 1], has_errors,
                                    shown_errors, all_metadata, all_time_series)} :
               /\ pc' = "loop"
               /\ status_text' = "Processing"
               /\ i' = IF truthy(first_error(outcome.value)) THEN Len(domains) ELSE i + 1
               /\ has_errors' = after.has_errors
               /\ shown_errors' = after.shown_errors
               /\ all_metadata' = after.all_metadata
               /\ all_time_series' = after.all_time_series
               /\ net_calls' = net_calls \o <<domains[i + 1]>>
               /\ fetched' = Append(fetched, outcome.value)
    /\ UNCHANGED <<pads_year, api_key, domains_text, start_date, end_date, domains,
                   args, ret>>

\* one iteration of the batch loop; the network answers with response
LoopStep ==
    /\ pc = "loop"
    /\ i < Len(domains)
    /\ \E response \in BatchResponses :
         \E outcome \in {fetch_lead_data(domains[i + 1], start_date, end_date,
                                         response, pads_year)} :
            IF outcome.kind = "raise"
            THEN /\ pc' = "crashed"
                 /\ status_text' = "Processing"
                 /\ UNCHANGED <<i, all_metadata, all_time_series, has_errors,
                                shown_errors, net_calls, fetched>>
            ELSE \E after \in {loop_body(outcome.value, domains[i + 1], has_errors,
                                         shown_errors, all_metadata, all_time_series)} :
                    /\ pc' = "loop"
                    /\ status_text' = "Processing"
                    /\ i' = i + 1
                    /\ has_errors' = after.has_errors
                    /\ shown_errors' = after.shown_errors
                    /\ all_metadata' = after.all_metadata
                    /\ all_time_series' = after.all_time_series
                    /\ net_calls' = net_calls \o
                          [c \in 1..Len(SelectSeq(outcome.value.calls,
                                                  LAMBDA f : f = "requests.get"))
                             |-> domains[i + 1]]
                    /\ fetched' = Append(fetched, outcome.value)
    /\ UNCHANGED <<pads_year, api_key, domains_text, start_date, end_date, domains,
                   args, ret>>

\* the loop is over: the closing status message
LoopExit ==
    /\ pc = "loop"
    /\ i = Len(domains)
    /\ pc' = "done"
    /\ status_text' = IF has_errors THEN "Processing complete with errors"
                      ELSE "Processing complete!"
    /\ UNCHANGED <<pads_year, api_key, domains_text, start_date, end_date, domains, i,
                   all_metadata, all_time_series, has_errors, shown_errors,
                   net_calls, fetched, args, ret>>

Next == GenerateCSV \/ LoopStep \/ LoopExit

Spec == Init /\ [][Next]_vars

\* every requests.get returns or raises, and the script runs on
FairSpec == Spec /\ WF_vars(LoopStep) /\ WF_vars(LoopExit)

----------------------------------------------------------------------------
(* The functions applied directly to inputs *)

UnitArgs ==
    {[fn |-> "validate_date_format", date_str |-> d] : d \in DateInputs}
    \cup {[fn |-> "get_date_range", start |-> s, end |-> e] :
            s \in ValidDateInputs, e \in ValidDateInputs}
    \cup {[fn |-> "parse_metadata", doc |-> d, domain |-> dom] :
            d \in Docs, dom \in DomainInputs}
    \cup {[fn |-> "parse_time_series", doc |-> d, domain |-> dom, date |-> t] :
            d \in Docs, dom \in DomainInputs, t \in TargetDates}
    \cup {[fn |-> "fetch_lead_data", domain |-> dom, start |-> s, end |-> e,
           response |-> r] :
            dom \in DomainInputs, s \in DateInputs, e \in DateInputs, r \in Responses}

\* the months a call would range over are at most MaxMonths
ArgsWithinBounds(a) ==
    a.fn \in {"get_date_range", "fetch_lead_data"} => WithinMaxMonths(a.start, a.end)

UnitInit ==
    /\ pads_year \in BOOLEAN
    /\ pc = "call"
    /\ api_key = <<>>
    /\ domains_text = <<>>
    /\ start_date = <<>>
    /\ end_date = <<>>
    /\ domains = <<>>
    /\ i = 0
    /\ all_metadata = <<>>
    /\ all_time_series = <<>>
    /\ has_errors = FALSE
    /\ shown_errors = <<>>
    /\ status_text = "none"
    /\ net_calls = <<>>
    /\ fetched = <<>>
    /\ args \in UnitArgs
    /\ ArgsWithinBounds(args)
    /\ ret = NoCall

ApplyValidateDateFormat ==
    /\ args.fn = "validate_date_format"
    /\ ret = NoCall
    /\ ret' = [fn |-> args.fn, value |-> validate_date_format(args.date_str)]
    /\ UNCHANGED <<pads_year, batch_vars, args>>

ApplyGetDateRange ==
    /\ args.fn = "get_date_range"
    /\ ret = NoCall
    /\ ret' = [fn |-> args.fn, out |-> get_date_range(args.start, args.end, pads_year)]
    /\ UNCHANGED <<pads_year, batch_vars, args>>

ApplyParseMetadata ==
    /\ args.fn = "parse_metadata"
    /\ ret = NoCall
    /\ ret' = [fn |-> args.fn, out |-> parse_metadata(args.doc, args.domain)]
    /\ UNCHANGED <<pads_year, batch_vars, args>>

ApplyParseTimeSeries ==
    /\ args.fn = "parse_time_series"
    /\ ret = NoCall
    /\ ret' = [fn |-> args.fn, out |-> parse_time_series(args.doc, args.domain, args.date)]
    /\ UNCHANGED <<pads_year, batch_vars, args>>

ApplyFetchLeadData ==
    /\ args.fn = "fetch_lead_data"
    /\ ret = NoCall
    /\ ret' = [fn |-> args.fn,
               out |-> fetch_lead_data(args.domain, args.start, args.end,
                                       args.response, pads_year)]
    /\ UNCHANGED <<pads_year, batch_vars, args>>

UnitNext ==
    \/ ApplyValidateDateFormat
    \/ ApplyGetDateRange
    \/ ApplyParseMetadata
    \/ ApplyParseTimeSeries
    \/ ApplyFetchLeadData

UnitSpec == UnitInit /\ [][UnitNext]_vars

\* the form and the directly applied functions together
AllInit == Init \/ UnitInit
AllNext == Next \/ UnitNext
AllSpec == AllInit /\ [][AllNext]_vars

----------------------------------------------------------------------------
(* Properties *)

\* the calendar position of a valid YYYY-MM text
IndexOf(date_str) ==
    MonthIndex(1000 * DigitVal(date_str[1]) + 100 * DigitVal(date_str[2])
               + 10 * DigitVal(date_str[3]) + DigitVal(date_str[4]),
               10 * DigitVal(date_str[6]) + DigitVal(date_str[7]))

\* the YYYY-MM text of a calendar position
TextOf(index) ==
    LET year == (index - 1) \div 12
        month == index - 12 * year
    IN  <<DigitChars[(year \div 1000) + 1], DigitChars[((year \div 100) % 10) + 1],
          DigitChars[((year \div 10) % 10) + 1], DigitChars[(year % 10) + 1], "-",
          DigitChars[(month \div 10) + 1], DigitChars[(month % 10) + 1]>>

\* the number of months from start to end, both included
MonthCount(start, end) == IndexOf(end) - IndexOf(start) + 1

\* C5: for valid year-months start <= end, get_date_range returns the
\* MonthCount(start, end) months from start to end, each one calendar month
\* after its predecessor (so strictly increasing), beginning with start and
\* ending with end.
C5_DateRangeComplete ==
    (/\ ret.fn = "get_date_range"
     /\ IndexOf(args.start) <= IndexOf(args.end))
    => /\ ret.out.exc = "none"
       /\ Len(ret.out.dates) = MonthCount(args.start, args.end)
       /\ ret.out.dates[1] = args.start
       /\ ret.out.dates[Len(ret.out.dates)] = args.end
       /\ \A k \in 1..Len(ret.out.dates) :
             ret.out.dates[k] = TextOf(IndexOf(args.start) + k - 1)

\* a 200 response whose body parses to a mapping
IsDocumentResponse(response) ==
    /\ response.kind = "response"
    /\ response.status_code = 200
    /\ response.json.exc = "none"
    /\ isinstance_dict(response.json.data)

\* C2: on a 200 response with a parseable document and valid start <= end,
\* fetch_lead_data returns one metadata row and one time-series row per month
\* of the range, the k-th dated YYYY-MM-01 for the k-th month, every row
\* carrying the domain passed in.
C2_SuccessShape ==
    (/\ ret.fn = "fetch_lead_data"
     /\ args.start \in ValidDateInputs
     /\ args.end \in ValidDateInputs
     /\ IndexOf(args.start) <= IndexOf(args.end)
     /\ IsDocumentResponse(args.response))
    => /\ ret.out.kind = "return"
       /\ Len(ret.out.value.metadata) = 1
       /\ ret.out.value.metadata[1]["domain"] = Str(args.domain)
       /\ Len(ret.out.value.time_series) = MonthCount(args.start, args.end)
       /\ \A k \in 1..Len(ret.out.value.time_series) :
             /\ ret.out.value.time_series[k]["domain"] = Str(args.domain)
             /\ ret.out.value.time_series[k]["date"]
                   = Str(TextOf(IndexOf(args.start) + k - 1) \o DaySuffix)

\* the columns every time-series row is described to have
FixedColumns ==
    {"domain", "date"} \cup BasicMetrics \cup {"desktop_share", "mobile_share"}
    \cup GeoColumns

\* the value parse_time_series finds under key for the date of the call
Matched(key) == get_metric_value(dict_get(args.doc, key, List(<<>>)), args.date)

\* a traffic source entry with a usable source_type
Usable(source) ==
    /\ isinstance_dict(source)
    /\ "source_type" \in DOMAIN source.v
    /\ source.v["source_type"].t = "str"
    /\ source.v["source_type"].v /= <<>>

ColumnOf(source) == "traffic_" \o Join(replace_space(lower(source.v["source_type"].v)))

ShareText(source) ==
    IF "share" \notin DOMAIN source.v THEN Empty
    ELSE IF source.v["share"] = Empty THEN Empty
    ELSE Str(str(source.v["share"]))

\* C10: for a date-matched traffic_sources list the row is produced, every
\* entry with a usable source_type gives the column traffic_<name> holding
\* its stringified share, and the entries without one add no column.
C10_TrafficColumns ==
    (/\ ret.fn = "parse_time_series"
     /\ isinstance_dict(args.doc)
     /\ isinstance_list(Matched("traffic_sources")))
    => /\ ret.out.exc = "none"
       /\ LET sources == Matched("traffic_sources").v
              usable == {p \in 1..Len(sources) : Usable(sources[p])}
          IN  /\ DOMAIN ret.out.row \ FixedColumns = {ColumnOf(sources[p]) : p \in usable}
              /\ \A p \in usable :
                    \E q \in usable :
                       /\ ColumnOf(sources[q]) = ColumnOf(sources[p])
                       /\ ret.out.row[ColumnOf(sources[p])] = ShareText(sources[q])

\* C6: every row parse_time_series produces has the twenty geography
\* columns, all empty when no geography entry matches the target month.
C6_GeoColumnsAlways ==
    (/\ ret.fn = "parse_time_series"
     /\ ret.out.exc = "none")
    => /\ GeoColumns \subseteq DOMAIN ret.out.row
       /\ ~isinstance_list(Matched("geography_share"))
             => \A c \in GeoColumns : ret.out.row[c] = Empty

\* C8: every value of a row returned by parse_metadata or parse_time_series
\* is a string.
C8_AllValuesText ==
    (/\ ret.fn \in {"parse_metadata", "parse_time_series"}
     /\ ret.out.exc = "none")
    => \A k \in DOMAIN ret.out.row : ret.out.row[k].t = "str"

\* a {country, share} object
IsCountryShare(x) == isinstance_dict(x) /\ {"country", "share"} \subseteq DOMAIN x.v

Min(a, b) == IF a < b THEN a ELSE b

\* C7: when the date-matched geography entry is a list of n {country, share}
\* objects, slots 1..min(10, n) hold the country and share of the elements
\* in array order, the remaining slots are empty, and elements 11..n leave
\* nothing in the row.
C7_GeoPositional ==
    (/\ ret.fn = "parse_time_series"
     /\ isinstance_dict(args.doc)
     /\ ret.out.exc = "none"
     /\ isinstance_list(Matched("geography_share"))
     /\ \A p \in 1..Len(Matched("geography_share").v) :
           IsCountryShare(Matched("geography_share").v[p]))
    => LET geo == Matched("geography_share").v
           row == ret.out.row
       IN  /\ \A p \in 1..Min(10, Len(geo)) :
                 /\ row[geo_country(p)] = Str(str(geo[p].v["country"]))
                 /\ row[geo_country_share(p)] = Str(str(geo[p].v["share"]))
           /\ \A p \in (Min(10, Len(geo)) + 1)..10 :
                 /\ row[geo_country(p)] = Empty
                 /\ row[geo_country_share(p)] = Empty
           /\ \A p \in 11..Len(geo) :
                 /\ geo_country(p) \notin DOMAIN row
                 /\ geo_country_share(p) \notin DOMAIN row
           /\ Cardinality({c \in DOMAIN row : c \in GeoColumns}) = 20

\* C7 witness: twelve countries matched, the tenth slot holds the tenth one
C7_Witness ==
    /\ ret.fn = "parse_time_series"
    /\ args.doc = DocManyCountries
    /\ args.date = Dec2024Day
    /\ ret.out.exc = "none"
    /\ ret.out.row[geo_country(10)] = Str(<<"E","S">>)
    /\ ret.out.row[geo_country_share(10)] = Str(<<"1","1">>)

MetricKeys ==
    BasicMetrics \cup {"mobile_desktop_share", "traffic_sources", "geography_share"}

\* the entries under key that are objects dated exactly date
ExactEntries(doc, key, date) ==
    IF key \notin DOMAIN doc.v THEN {}
    ELSE IF doc.v[key].t /= "list" THEN {}
    ELSE {p \in 1..Len(doc.v[key].v) :
            /\ doc.v[key].v[p].t = "dict"
            /\ "date" \in DOMAIN doc.v[key].v[p].v
            /\ doc.v[key].v[p].v["date"] = Str(date)}

\* C9: a metric takes its value only from an entry whose date is exactly
\* the target date; when no entry of any metric array is dated exactly the
\* target date, every metric field of the row is the empty string.
C9_ExactDateMatch ==
    (/\ ret.fn = "parse_time_series"
     /\ isinstance_dict(args.doc)
     /\ ret.out.exc = "none")
    => LET row == ret.out.row
       IN  /\ \A k \in BasicMetrics :
                 row[k] /= Empty =>
                    \E p \in ExactEntries(args.doc, k, args.date) :
                       /\ "value" \in DOMAIN args.doc.v[k].v[p].v
                       /\ row[k] = Str(str(args.doc.v[k].v[p].v["value"]))
           /\ (row["desktop_share"] /= Empty \/ row["mobile_share"] /= Empty)
                 => ExactEntries(args.doc, "mobile_desktop_share", args.date) /= {}
           /\ (\A k \in MetricKeys : ExactEntries(args.doc, k, args.date) = {})
                 => \A f \in DOMAIN row \ {"domain", "date"} : row[f] = Empty

\* C9 witness: entries dated 2024-12 against the target 2024-12-01
C9_Witness ==
    /\ ret.fn = "parse_time_series"
    /\ args.doc = DocMonthDates
    /\ args.date = Dec2024Day
    /\ ret.out.exc = "none"
    /\ ret.out.row["visits"] = Empty

\* the call is one of: invalid date bound, exception from requests.get,
\* status other than 200, exception while parsing or flattening
Unsuccessful(a) ==
    \/ a.start \notin ValidDateInputs
    \/ a.end \notin ValidDateInputs
    \/ a.response.kind = "raise"
    \/ a.response.status_code /= 200
    \/ fetch_try(a.domain, a.start, a.end, a.response, pads_year).kind = "raise"

\* C3: fetch_lead_data always returns; when the fetch is not successful it
\* returns one metadata row with exactly the keys domain and error and no
\* time-series row; no returned row has an error key next to a success field.
C3_ErrorShape ==
    ret.fn = "fetch_lead_data"
    => /\ ret.out.kind = "return"
       /\ Len(ret.out.value.metadata) = 1
       /\ Unsuccessful(args)
             => /\ DOMAIN ret.out.value.metadata[1] = {"domain", "error"}
                /\ ret.out.value.metadata[1]["domain"] = Str(args.domain)
                /\ ret.out.value.time_series = <<>>
       /\ \A k \in 1..Len(ret.out.value.metadata) :
             ~(/\ "error" \in DOMAIN ret.out.value.metadata[k]
               /\ DOMAIN ret.out.value.metadata[k] \cap MetadataFields /= {})
       /\ \A k \in 1..Len(ret.out.value.time_series) :
             "error" \notin DOMAIN ret.out.value.time_series[k]

\* C3 witness: a 200 response whose flattening raises gives the error row
C3_Witness ==
    /\ ret.fn = "fetch_lead_data"
    /\ args.response = Ok(Parsed(DocNullSourceType))
    /\ args.start = Nov2024
    /\ args.end = Jan2025
    /\ ret.out.kind = "return"
    /\ DOMAIN ret.out.value.metadata[1] = {"domain", "error"}
    /\ ret.out.value.time_series = <<>>

\* the row has the error shape {domain, error}
IsErrorRow(row) == "error" \in DOMAIN row

\* the fetch results of the domains that succeeded, in input order
Successes == SelectSeq(fetched, LAMBDA r : ~IsErrorRow(r.metadata[1]))

RECURSIVE Flatten(_)
Flatten(seqs) == IF seqs = <<>> THEN <<>> ELSE Head(seqs) \o Flatten(Tail(seqs))

\* C1 as stated: after the loop the metadata table has one row per domain,
\* error-shaped for a failed domain and a success row for a successful one,
\* and the time-series table has rows only for the successful domains.
C1_OneRowPerDomain ==
    pc = "done"
    => /\ Len(all_metadata) = Len(domains)
       /\ \A k \in 1..Len(all_metadata) :
             /\ all_metadata[k]["domain"] = Str(domains[k])
             /\ IsErrorRow(all_metadata[k]) <=> IsErrorRow(fetched[k].metadata[1])
       /\ all_time_series = Flatten([k \in 1..Len(Successes) |-> Successes[k].time_series])

\* C1 amended: after the loop the metadata table holds exactly the success
\* rows of the successful domains, in input order, and no error-shaped row;
\* each failed domain is only reported (one message each, has_errors set);
\* the time-series table holds exactly the rows of the successful domains.
C1_SuccessRowsOnly ==
    pc = "done"
    => /\ all_metadata = [k \in 1..Len(Successes) |-> Successes[k].metadata[1]]
       /\ \A k \in 1..Len(all_metadata) : ~IsErrorRow(all_metadata[k])
       /\ all_time_series = Flatten([k \in 1..Len(Successes) |-> Successes[k].time_series])
       /\ Len(all_metadata) + Len(shown_errors) = Len(domains)
       /\ has_errors <=> Len(shown_errors) > 0

\* C1 witness: three domains, one of them failed
C1_Witness ==
    /\ pc = "done"
    /\ Len(domains) = 3
    /\ Len(shown_errors) = 1
    /\ Len(all_metadata) = 2
    /\ all_time_series /= <<>>

\* C4: the loop calls the network once per domain, in input order, whatever
\* the earlier domains returned, never stops on an exception, and ends after
\* the last domain with every domain fetched.
C4_EveryDomainFetched ==
    /\ [](pc \in {"loop", "done"}
             => /\ i <= Len(domains)
                /\ net_calls = SubSeq(domains, 1, i)
                /\ Len(fetched) = i
                /\ \A k \in 1..i : fetched[k].metadata[1]["domain"] = Str(domains[k]))
    /\ [](pc /= "crashed")
    /\ [](pc = "loop" => <>(pc = "done" /\ i = Len(domains) /\ net_calls = domains))

\* C4 witness: the first of several domains failed and all were fetched
C4_Witness ==
    /\ pc = "done"
    /\ Len(domains) >= 2
    /\ IsErrorRow(fetched[1].metadata[1])
    /\ net_calls = domains

\* a response with a status other than 200 and 403
IsOtherStatus(response) ==
    /\ response.kind = "response"
    /\ response.status_code \notin {200, 403}

\* the body is a JSON object whose meta object has a truthy error_message
HasProviderMessage(response) ==
    /\ response.json.exc = "none"
    /\ response.json.data.t = "dict"
    /\ "meta" \in DOMAIN response.json.data.v
    /\ response.json.data.v["meta"].t = "dict"
    /\ "error_message" \in DOMAIN response.json.data.v["meta"].v
    /\ truthy(response.json.data.v["meta"].v["error_message"])

\* the body is a JSON object whose meta, when present, is an object
IsWellFormedJson(response) ==
    /\ response.json.exc = "none"
    /\ response.json.data.t = "dict"
    /\ "meta" \in DOMAIN response.json.data.v => response.json.data.v["meta"].t = "dict"

\* the error message of the row fetch_lead_data returned
ReturnedError == ret.out.value.metadata[1]["error"]

\* C11 as stated: for a status other than 200 and 403 the error is the
\* provider message when the body carries one, otherwise the raw body when
\* it is not empty, otherwise "HTTP Error {status}".
C11_RawBodyFallback ==
    (/\ ret.fn = "fetch_lead_data"
     /\ args.start \in ValidDateInputs
     /\ args.end \in ValidDateInputs
     /\ IsOtherStatus(args.response))
    => ReturnedError =
          IF HasProviderMessage(args.response)
          THEN args.response.json.data.v["meta"].v["error_message"]
          ELSE IF args.response.text /= <<>> THEN Str(args.response.text)
          ELSE Str(HttpErrorPrefix \o IntText(args.response.status_code))

\* C11 amended: the error is the provider message when the body carries
\* one; "Unknown error occurred" when the body is a JSON object (meta absent
\* or an object) without one; otherwise (body not JSON, or JSON of another
\* shape) the raw body when it is not empty, else "HTTP Error {status}".
C11_UnknownErrorFallback ==
    (/\ ret.fn = "fetch_lead_data"
     /\ args.start \in ValidDateInputs
     /\ args.end \in ValidDateInputs
     /\ IsOtherStatus(args.response))
    => ReturnedError =
          IF HasProviderMessage(args.response)
          THEN args.response.json.data.v["meta"].v["error_message"]
          ELSE IF IsWellFormedJson(args.response) THEN Str(UnknownErrorMessage)
          ELSE IF args.response.text /= <<>> THEN Str(args.response.text)
          ELSE Str(HttpErrorPrefix \o IntText(args.response.status_code))

\* C11 witness: a 429 whose JSON body has no provider message
C11_Witness ==
    /\ ret.fn = "fetch_lead_data"
    /\ args.start \in ValidDateInputs
    /\ args.end \in ValidDateInputs
    /\ IsOtherStatus(args.response)
    /\ args.response.text = MetaEmptyText
    /\ ReturnedError = Str(UnknownErrorMessage)

\* the text is four digits, a hyphen and a month 01..12, of a year from 1 on
IsYearMonth(date_str) ==
    /\ Len(date_str) = 7
    /\ \A p \in {1, 2, 3, 4, 6, 7} : \E d \in 1..10 : DigitChars[d] = date_str[p]
    /\ date_str[5] = "-"
    /\ 10 * DigitVal(date_str[6]) + DigitVal(date_str[7]) \in 1..12
    /\ (IndexOf(date_str) - 1) \div 12 >= 1

\* C12: with a month bound that fails YYYY-MM validation fetch_lead_data
\* returns the error-shaped row without a network call and without invoking
\* get_date_range, parse_metadata or parse_time_series; validate_date_format
\* rejects the malformed inputs, and every text it accepts is a year-month
\* that strptime (hence get_date_range) parses.
C12_InvalidDatesStopEarly ==
    /\ (/\ ret.fn = "fetch_lead_data"
        /\ (args.start \notin ValidDateInputs \/ args.end \notin ValidDateInputs))
       => /\ ret.out.kind = "return"
          /\ ret.out.value.metadata
                = <<[domain |-> Str(args.domain), error |-> Str(InvalidDateMessage)]>>
          /\ ret.out.value.time_series = <<>>
          /\ ret.out.value.calls = <<>>
    /\ ret.fn = "validate_date_format"
       => /\ args.date_str \in InvalidDateInputs => ~ret.value
          /\ args.date_str \in ValidDateInputs => ret.value
          /\ ret.value => /\ IsYearMonth(args.date_str)
                          /\ strptime(args.date_str).exc = "none"
                          /\ MonthIndex(strptime(args.date_str).year,
                                        strptime(args.date_str).month)
                                = IndexOf(args.date_str)

\* C12 witness: start "2024-13" with a network that would answer 200
C12_Witness ==
    /\ ret.fn = "fetch_lead_data"
    /\ args.start = <<"2","0","2","4","-","1","3">>
    /\ args.end \in ValidDateInputs
    /\ args.response = Ok(Parsed(DocFull))
    /\ ret.out.value.calls = <<>>
    /\ IsErrorRow(ret.out.value.metadata[1])

\* the positions in fetched of the domains whose fetch failed
Failed_ == {k \in 1..Len(fetched) : IsErrorRow(fetched[k].metadata[1])}

\* the failed results, in input order
Failures == SelectSeq(fetched, LAMBDA r : IsErrorRow(r.metadata[1]))

\* C13: the error field of every error-shaped row fetch_lead_data returns is
\* truthy and a row is error-shaped exactly when the fetch did not succeed;
\* in the loop has_errors is true exactly when some processed domain failed,
\* and an error is shown for exactly the failed domains, which add no row.
C13_ErrorsClassified ==
    /\ ret.fn = "fetch_lead_data"
       => /\ IsErrorRow(ret.out.value.metadata[1])
                => truthy(ret.out.value.metadata[1]["error"])
          /\ IsErrorRow(ret.out.value.metadata[1]) <=> Unsuccessful(args)
    /\ \A k \in Failed_ : truthy(fetched[k].metadata[1]["error"])
    /\ pc \in {"loop", "done"}
       => /\ has_errors <=> Failed_ /= {}
          /\ shown_errors = [k \in 1..Len(Failures) |->
                               [domain |-> Failures[k].metadata[1]["domain"].v,
                                error |-> Failures[k].metadata[1]["error"]]]
          /\ \A k \in 1..Len(all_metadata) : ~IsErrorRow(all_metadata[k])
          /\ Len(all_metadata) = Len(fetched) - Cardinality(Failed_)

\* C13 witness: of three domains the second timed out with an empty
\* exception text, and only that one is reported
C13_Witness ==
    /\ pc = "done"
    /\ Len(domains) = 3
    /\ Failed_ = {2}
    /\ fetched[2].metadata[1]["error"] = Str(NetworkErrorPrefix)
    /\ has_errors
    /\ Len(shown_errors) = 1
    /\ shown_errors[1].domain = domains[2]

\* new is old with rows added at its end only
AppendedTo(old, new) ==
    /\ Len(old) <= Len(new)
    /\ SubSeq(new, 1, Len(old)) = old

\* the time-series rows of one result carry its domain and consecutive months
AscendingMonths(result) ==
    /\ \A j \in 1..Len(result.time_series) :
          result.time_series[j]["domain"] = result.metadata[1]["domain"]
    /\ \A j \in 1..(Len(result.time_series) - 1) :
          IndexOf(result.time_series[j + 1]["date"].v)
              = IndexOf(result.time_series[j]["date"].v) + 1

\* C14: every step leaves the previous contents of all_metadata and of
\* all_time_series as an unchanged prefix of the new contents; during and
\* after the loop the two lists hold the rows of the successful entries of
\* the domain list in input order, the time-series rows of one entry in one
\* block of consecutive ascending months.
C14_AppendOnly ==
    /\ [][/\ AppendedTo(all_metadata, all_metadata')
          /\ AppendedTo(all_time_series, all_time_series')]_vars
    /\ [](pc \in {"loop", "done"}
             => /\ all_metadata
                     = [k \in 1..Len(Successes) |-> Successes[k].metadata[1]]
                /\ all_time_series
                     = Flatten([k \in 1..Len(Successes) |-> Successes[k].time_series])
                /\ \A k \in 1..Len(fetched) :
                      /\ fetched[k].metadata[1]["domain"] = Str(domains[k])
                      /\ AscendingMonths(fetched[k]))

\* C14 witness: two entries succeeded, three months each, the second block
\* directly after the first
C14_Witness ==
    /\ pc \in {"loop", "done"}
    /\ Len(all_metadata) = 2
    /\ Len(all_time_series) = 6
    /\ all_time_series[3]["domain"] = all_metadata[1]["domain"]
    /\ all_time_series[4]["domain"] = all_metadata[2]["domain"]
    /\ all_metadata[1]["domain"] /= all_metadata[2]["domain"]
    /\ IndexOf(all_time_series[4]["date"].v) < IndexOf(all_time_series[3]["date"].v)

\* two valid year-months, the first later than the second
StartAfterEnd(start, end) ==
    /\ start \in ValidDateInputs
    /\ end \in ValidDateInputs
    /\ IndexOf(start) > IndexOf(end)

\* get_date_range returns the empty list for a start after the end, and
\* fetch_lead_data makes its network call whatever the order
CoreIgnoresOrder ==
    /\ (ret.fn = "get_date_range" /\ StartAfterEnd(args.start, args.end))
       => /\ ret.out.exc = "none"
          /\ ret.out.dates = <<>>
    /\ (ret.fn = "fetch_lead_data" /\ StartAfterEnd(args.start, args.end))
       => /\ ret.out.kind = "return"
          /\ ret.out.value.calls /= <<>>
          /\ ret.out.value.calls[1] = "requests.get"

\* the form rejects a start after the end before any fetch, so the loop never
\* runs with one
FormEnforcesOrder ==
    StartAfterEnd(start_date, end_date)
    => /\ pc = "rejected"
       /\ net_calls = <<>>
       /\ fetched = <<>>
       /\ (api_key /= <<>> /\ ~text_is_empty(domains_text))
          => shown_errors = <<[form |-> "End date must be after start date"]>>

\* a success metadata row for the domain and no time-series row
EmptySuccess(domain, value) ==
    /\ Len(value.metadata) = 1
    /\ ~IsErrorRow(value.metadata[1])
    /\ value.metadata[1]["domain"] = Str(domain)
    /\ value.time_series = <<>>

====
